---- MODULE Spec2Model ----
(***************************************************************************)
(* Model of src/src/refinitivloader.py: a per-instrument cache of vendor   *)
(* time series kept as one parquet file per RIC under a base directory.    *)
(*                                                                         *)
(* A table (DataFrame) is a record [cols, rows]: cols is the set of column *)
(* names, rows the sequence of rows in index order, each row a record      *)
(* [date, vals] with vals a function from cols to a value; NA stands for a *)
(* missing value (NaN).                                                    *)
(*                                                                         *)
(* The variables vendor, dirs, files and session are the state the calls   *)
(* act on.  The variable last is an observation: a call made with          *)
(* obs = TRUE leaves in it its arguments, what it printed, fetched and     *)
(* returned; a call made with obs = FALSE leaves NoCall.  A behaviour is   *)
(* any sequence of unobserved calls followed by one observed call (and,    *)
(* for init_data, that same call once more), so that every call from       *)
(* every reachable state is observed.                                      *)
(***************************************************************************)
EXTENDS Integers, Sequences, FiniteSets, TLC

\* ---------------------------------------------------------------- bounds
MaxDate == 3
MaxRics == 2

\* ------------------------------------------------------------- universes
RICS == {"A", "B"}
Names == {"PX", "VOL"}
Dates == 1 .. MaxDate
NA == 0

\* The hard-coded folder of lines 76 and 137, and one other store location.
DataDir == "data"
Dirs == {"data", "store"}

\* The lists of identifiers a caller passes.
RicLists == UNION {[1 .. n -> RICS] : n \in 0 .. MaxRics}

\* Field lists a caller of init_data passes.
FieldLists == {<<"PX">>, <<"PX", "VOL">>}

Range(s) == {s[i] : i \in 1 .. Len(s)}

\* ----------------------------------------------------------- get_fields
\* fields.json: short field name -> vendor field code.
available_fields == [n \in {"PX"} |-> "TRDPRC_1"]

\* The column a vendor answer carries for a requested field (name or code).
Label(f) == IF \E n \in DOMAIN available_fields : available_fields[n] = f
            THEN CHOOSE n \in DOMAIN available_fields : available_fields[n] = f
            ELSE f

\* ------------------------------------------------------------- get_rics
Indices == {"sp500", "dax"}
rics_files == [i \in {"sp500"} |-> <<"A", "B">>]

VARIABLES vendor, dirs, files, session, last
vars == <<vendor, dirs, files, session, last>>

\* ---------------------------------------------------------------- tables
NoFiles == [r \in {} |-> NA]

Row(d, v) == [date |-> d, vals |-> v]

LastDate(df) == df.rows[Len(df.rows)].date

\* pd.concat([df0, df1]): rows of df0 then rows of df1 over the union of the
\* columns; a cell of a column a frame lacks is missing.
Pad(rows, cols) ==
  [i \in 1 .. Len(rows) |->
     Row(rows[i].date,
         [c \in cols |-> IF c \in DOMAIN rows[i].vals THEN rows[i].vals[c] ELSE NA])]

\* concat with the frames in the wrong order.
concat_reversed(df0, df1) ==
  LET cols == df0.cols \cup df1.cols
  IN [cols |-> cols, rows |-> Pad(df1.rows, cols) \o Pad(df0.rows, cols)]

concat(df0, df1) ==
  LET cols == df0.cols \cup df1.cols
  IN [cols |-> cols, rows |-> Pad(df0.rows, cols) \o Pad(df1.rows, cols)]

\* df.ffill(): walking the rows in order, a missing cell takes the value the
\* previous (already filled) row has in that column.
\* ffill left out.
ffill_skipped(df) == df

ffill(df) ==
  LET f[i \in 0 .. Len(df.rows)] ==
        IF i = 0 THEN [c \in df.cols |-> NA]
        ELSE [c \in df.cols |->
                IF df.rows[i].vals[c] # NA THEN df.rows[i].vals[c] ELSE f[i - 1][c]]
  IN [cols |-> df.cols,
      rows |-> [i \in 1 .. Len(df.rows) |-> Row(df.rows[i].date, f[i])]]

\* df.dropna(): keeps the rows without a missing cell.
dropna(df) ==
  [cols |-> df.cols,
   rows |-> SelectSeq(df.rows, LAMBDA r : \A c \in df.cols : r.vals[c] # NA)]

\* ------------------------------------------------------------ the vendor
\* The vendor's data: the value of field f of instrument r on date d.
Gaps == {<<"A", 2, "PX">>, <<"A", 1, "VOL">>, <<"B", 1, "PX">>}
Quote(r, d, f) == IF <<r, d, f>> \in Gaps THEN NA ELSE d

\* ld.get_history(universe=[ric], fields, start, end): one row per date of
\* the range, one column per requested field the vendor serves for ric.
get_history(ric, fields, start, end) ==
  LET cols == {Label(fields[i]) : i \in 1 .. Len(fields)} \cap vendor.served[ric]
      lo   == IF vendor.inclusive THEN start ELSE start + 1
      n    == IF end >= lo THEN end - lo + 1 ELSE 0
  IN [cols |-> cols,
      rows |-> [i \in 1 .. n |->
                  Row(lo + i - 1, [c \in cols |-> Quote(ric, lo + i - 1, c)])]]

\* ------------------------------------------------------- the file system
\* os.path.exists(base_dir / f"{ric}.parquet")
path_exists(ds, fs, base_dir, ric) == base_dir \in ds /\ ric \in DOMAIN fs[base_dir]

\* df.to_parquet(...): the folder's files with ric's file (over)written.
to_parquet(folder, ric, df) == (ric :> df) @@ folder

Orders(S) == {s \in [1 .. Cardinality(S) -> S] :
                \A i, j \in 1 .. Cardinality(S) : s[i] = s[j] => i = j}

\* What an observed call leaves in last: the operation and its arguments,
\* whether it repeats the call before it, how it ended, whether it opened a
\* vendor session, the identifiers it fetched, the lines it printed, what the
\* loop did with each identifier, and what it returned.
NoCall == [op |-> "none", args |-> <<>>, again |-> FALSE,
           outcome |-> "returned", opened |-> FALSE,
           fetched |-> {}, reported |-> {}, done |-> {}, listed |-> <<>>,
           result |-> NoFiles]

Observe(obs, call) == IF obs THEN call ELSE NoCall

Start(folder) == [folder |-> folder, fetched |-> {}, reported |-> {}, done |-> {},
                  outcome |-> "returned"]

\* ------------------------------------------------------------- init_data
\* One pass of the loop of lines 158-173 for ric; st is the loop's state.
InitStep(st, ric, fields, start, end, base_dir, ds, debug) ==
  LET df  == get_history(ric, fields, start, end)
      st1 == [st EXCEPT !.fetched = @ \cup {ric}]
  IN IF Cardinality(df.cols) < Len(fields)
     THEN [st1 EXCEPT !.done = @ \cup {<<ric, "missing">>},
                      !.reported =
                         IF debug
                         THEN @ \cup {<<"missing", ric, f>> : f \in Range(fields) \ df.cols}
                         ELSE @]
     ELSE IF base_dir \notin ds
          THEN [st1 EXCEPT !.outcome = "raised", !.done = @ \cup {<<ric, "failed">>}]
          ELSE [st1 EXCEPT !.folder = to_parquet(@, ric, df),
                           !.done = @ \cup {<<ric, "saved">>}]

RECURSIVE InitLoop(_, _, _, _, _, _, _, _)
InitLoop(order, st, fields, start, end, base_dir, ds, debug) ==
  IF order = <<>> \/ st.outcome = "raised" THEN st
  ELSE InitLoop(Tail(order),
                InitStep(st, Head(order), fields, start, end, base_dir, ds, debug),
                fields, start, end, base_dir, ds, debug)

\* Remaining with the existence check lost.
Remaining_NoSkip(rics, base_dir, ds, fs) == Range(rics)

\* The identifiers of rics without a cache entry (lines 140-149).
Remaining(rics, base_dir, ds, fs) ==
  Range(rics) \ {r \in Range(rics) : path_exists(ds, fs, base_dir, r)}

init_data(rics, fields, start, end, base_dir, debug, obs, again) ==
  LET ds   == dirs \cup {DataDir}
      todo == Remaining(rics, base_dir, ds, files)
      call == [NoCall EXCEPT !.op = "init_data",
                             !.args = <<rics, fields, start, end, base_dir, debug>>,
                             !.again = again,
                             !.done = {<<r, "cached">> : r \in Range(rics) \ todo}]
  IN /\ dirs' = ds
     /\ vendor' = vendor
     /\ IF todo = {}
        THEN /\ UNCHANGED <<files, session>>
             /\ last' = Observe(obs, call)
        ELSE \E order \in Orders(todo) :
               LET st == InitLoop(order, Start(files[base_dir]),
                                  fields, start, end, base_dir, ds, debug)
               IN /\ files' = [files EXCEPT ![base_dir] = st.folder]
                  /\ session' = IF st.outcome = "returned" THEN "closed" ELSE "open"
                  /\ last' = Observe(obs,
                               [call EXCEPT !.opened = TRUE, !.fetched = st.fetched,
                                            !.reported = st.reported,
                                            !.done = @ \cup st.done,
                                            !.outcome = st.outcome])

InitData ==
  /\ last = NoCall
  /\ \E rics \in RicLists, fields \in FieldLists, start \in Dates, end \in Dates,
        base_dir \in Dirs, debug \in BOOLEAN, obs \in BOOLEAN :
       start <= end /\ init_data(rics, fields, start, end, base_dir, debug, obs, FALSE)

\* The observed init_data call made once more on the same identifiers, fields,
\* start, end and store location.
InitDataAgain ==
  /\ last.op = "init_data" /\ ~last.again
  /\ \E debug \in BOOLEAN :
       init_data(last.args[1], last.args[2], last.args[3], last.args[4],
                 last.args[5], debug, TRUE, TRUE)

\* ----------------------------------------------------------- update_data
\* The cached columns absent from the lookup (lines 93-96).
Unknown(df) == df.cols \ DOMAIN available_fields

\* The vendor codes of the cached columns (line 98).
Codes(df) ==
  LET RECURSIVE List(_)
      List(S) == IF S = {} THEN <<>>
                 ELSE LET c == CHOOSE x \in S : TRUE
                      IN <<available_fields[c]>> \o List(S \ {c})
  IN List(df.cols \cap DOMAIN available_fields)

\* Stale with <= for <.
Stale_Inclusive(latest_date, new_end) == latest_date <= new_end

\* Line 101: is the entry behind new_end?
Stale(latest_date, new_end) == latest_date < new_end

\* One pass of the loop of lines 81-109 for ric.
UpdateStep(st, ric, new_end, base_dir, ds) ==
  IF ~(base_dir \in ds /\ ric \in DOMAIN st.folder)
  THEN [st EXCEPT !.outcome = "raised", !.done = @ \cup {<<ric, "unreadable">>}]
  ELSE LET df0 == st.folder[ric]
       IN IF df0.rows = <<>>
          THEN [st EXCEPT !.outcome = "raised", !.done = @ \cup {<<ric, "empty">>}]
          ELSE IF Unknown(df0) # {}
               THEN [st EXCEPT !.outcome = "aborted",
                               !.done = @ \cup {<<ric, "unknown">>},
                               !.reported = @ \cup
                                  {<<"unavailable", ric, CHOOSE f \in Unknown(df0) : TRUE>>}]
               ELSE IF Stale(LastDate(df0), new_end)
                    THEN LET df1 == get_history(ric, Codes(df0), LastDate(df0), new_end)
                         IN [st EXCEPT !.fetched = @ \cup {ric},
                                       !.done = @ \cup {<<ric, "updated">>},
                                       !.folder = to_parquet(@, ric, concat(df0, df1))]
                    ELSE [st EXCEPT !.done = @ \cup {<<ric, "current">>}]

RECURSIVE UpdateLoop(_, _, _, _, _)
UpdateLoop(rics, st, new_end, base_dir, ds) ==
  IF rics = <<>> \/ st.outcome # "returned" THEN st
  ELSE UpdateLoop(Tail(rics), UpdateStep(st, Head(rics), new_end, base_dir, ds),
                  new_end, base_dir, ds)

update_data(rics, new_end, base_dir, obs) ==
  LET ds == dirs \cup {DataDir}
      st == UpdateLoop(rics, Start(files[base_dir]), new_end, base_dir, ds)
  IN /\ dirs' = ds
     /\ vendor' = vendor
     /\ files' = [files EXCEPT ![base_dir] = st.folder]
     /\ session' = IF st.outcome = "returned" THEN "closed" ELSE "open"
     /\ last' = Observe(obs,
                  [NoCall EXCEPT !.op = "update_data",
                                 !.args = <<rics, new_end, base_dir>>,
                                 !.opened = TRUE,
                                 !.fetched = st.fetched, !.reported = st.reported,
                                 !.done = st.done,
                                 !.outcome = IF st.outcome = "raised" THEN "raised"
                                             ELSE "returned"])

UpdateData ==
  /\ last = NoCall
  /\ \E rics \in RicLists, new_end \in Dates, base_dir \in Dirs, obs \in BOOLEAN :
       update_data(rics, new_end, base_dir, obs)

\* --------------------------------------------------------- load_raw_data
\* load_raw leaving the loop at the first identifier without an entry.
load_raw_stops(rics, base_dir) ==
  LET absent == {i \in 1 .. Len(rics) : ~path_exists(dirs, files, base_dir, rics[i])}
      n      == IF absent = {} THEN Len(rics)
                ELSE (CHOOSE i \in absent : \A j \in absent : i <= j) - 1
      found  == {rics[i] : i \in 1 .. n}
  IN [data     |-> [r \in found |-> files[base_dir][r]],
      reported |-> {<<"notfound", rics[i], "">> : i \in absent \cap {n + 1}}]

\* The loop of lines 191-200: the entries found and the lines printed.
load_raw(rics, base_dir) ==
  LET found == {r \in Range(rics) : path_exists(dirs, files, base_dir, r)}
  IN [data     |-> [r \in found |-> files[base_dir][r]],
      reported |-> {<<"notfound", r, "">> : r \in Range(rics) \ found}]

load_raw_data(rics, base_dir, obs) ==
  LET res == load_raw(rics, base_dir)
  IN /\ last' = Observe(obs,
                  [NoCall EXCEPT !.op = "load_raw_data", !.args = <<rics, base_dir>>,
                                 !.reported = res.reported, !.result = res.data])
     /\ UNCHANGED <<vendor, dirs, files, session>>

LoadRawData ==
  /\ last = NoCall
  /\ \E rics \in RicLists, base_dir \in Dirs, obs \in BOOLEAN :
       load_raw_data(rics, base_dir, obs)

\* ------------------------------------------------ load_preprocessed_data
preprocess(df) == dropna(ffill(df))

load_preprocessed_data(rics, base_dir, obs) ==
  LET res == load_raw(rics, base_dir)
  IN /\ last' = Observe(obs,
                  [NoCall EXCEPT !.op = "load_preprocessed_data",
                                 !.args = <<rics, base_dir>>,
                                 !.reported = res.reported,
                                 !.result = [r \in DOMAIN res.data |->
                                               preprocess(res.data[r])]])
     /\ UNCHANGED <<vendor, dirs, files, session>>

LoadPreprocessedData ==
  /\ last = NoCall
  /\ \E rics \in RicLists, base_dir \in Dirs, obs \in BOOLEAN :
       load_preprocessed_data(rics, base_dir, obs)

\* -------------------------------------------------------------- get_rics
get_rics(index, obs) ==
  /\ last' = Observe(obs,
               IF index \in DOMAIN rics_files
               THEN [NoCall EXCEPT !.op = "get_rics", !.args = <<index>>,
                                   !.listed = rics_files[index]]
               ELSE [NoCall EXCEPT !.op = "get_rics", !.args = <<index>>,
                                   !.outcome = "raised"])
  /\ UNCHANGED <<vendor, dirs, files, session>>

GetRics ==
  /\ last = NoCall
  /\ \E index \in Indices, obs \in BOOLEAN : get_rics(index, obs)

\* ------------------------------------------------------- specification
\* The fields the vendor returns for each instrument, and whether its
\* answer includes the row of the start date.
Served == [r \in RICS |-> IF r = "A" THEN {"PX", "VOL"} ELSE {"PX"}]
Vendors == [served : {Served}, inclusive : BOOLEAN]

Init ==
  /\ vendor \in Vendors
  /\ dirs = {}
  /\ files = [d \in Dirs |-> NoFiles]
  /\ session = "closed"
  /\ last = NoCall

Next ==
  \/ InitData
  \/ InitDataAgain
  \/ UpdateData
  \/ LoadRawData
  \/ LoadPreprocessedData
  \/ GetRics

Spec == Init /\ [][Next]_vars

\* ------------------------------- the load operations on arbitrary entries
MaxRows == 3

\* The tables of at most n rows over the columns cols: row i is dated i and
\* each cell is either missing or holds i.
TablesOf(cols, n) ==
  UNION {{[cols |-> cols,
           rows |-> [i \in 1 .. k |->
                       Row(i, [c \in cols |-> IF <<i, c>> \in m THEN NA ELSE i])]] :
            m \in SUBSET ((1 .. k) \X cols)} : k \in 0 .. n}

Folders ==
  {NoFiles}
    \cup {("A" :> a) : a \in TablesOf({"PX"}, MaxRows) \cup TablesOf(Names, MaxRows)}
    \cup {("A" :> a) @@ ("B" :> b) :
            a \in TablesOf(Names, MaxRows), b \in TablesOf({"PX"}, 1)}

InitLoad ==
  /\ vendor \in Vendors
  /\ dirs = {DataDir}
  /\ \E folder \in Folders : files = [d \in Dirs |-> IF d = DataDir THEN folder ELSE NoFiles]
  /\ session = "closed"
  /\ last = NoCall

NextLoad == LoadRawData \/ LoadPreprocessedData

SpecLoad == InitLoad /\ [][NextLoad]_vars

\* ================================================================ claims
IsPrefix(s, t) == Len(s) <= Len(t) /\ \A i \in 1 .. Len(s) : s[i] = t[i]

Entries == {<<d, r>> \in Dirs \X RICS : r \in DOMAIN files[d]}

\* Does ric have a cache entry under base_dir?
Cached(base_dir, ric) == base_dir \in dirs /\ ric \in DOMAIN files[base_dir]

\* C1: an init_data call that follows an init_data call with the same
\* identifiers, fields, start, end and store location leaves the directories
\* and every file as the first call left them, and fetches nothing for an
\* identifier that has a cache entry.
C1_InitIdempotent ==
  [][(last'.op = "init_data" /\ last'.again)
       => /\ files' = files
          /\ dirs' = dirs
          /\ \A r \in Range(last'.args[1]) :
               Cached(last'.args[5], r) => r \notin last'.fetched]_vars

\* A second identical call that skipped a cached identifier and fetched again
\* one the first call had left without an entry.
C1_Witness ==
  /\ last.op = "init_data" /\ last.again
  /\ \E r \in RICS : <<r, "cached">> \in last.done
  /\ \E r \in RICS : <<r, "missing">> \in last.done

\* C2: whatever the call, every cache entry that exists before it exists after
\* it, with the same columns and with the rows it held as a prefix of its rows.
C2_AppendOnly ==
  [][\A d \in Dirs : \A r \in DOMAIN files[d] :
       /\ r \in DOMAIN files'[d]
       /\ files'[d][r].cols = files[d][r].cols
       /\ IsPrefix(files[d][r].rows, files'[d][r].rows)]_vars

\* An update_data call that appended a delta to an entry of several rows.
C2_Witness ==
  /\ last.op = "update_data"
  /\ \E r \in RICS :
       /\ <<r, "updated">> \in last.done
       /\ Len(files[last.args[3]][r].rows) >= 4

\* C3: the rows of every cache entry are strictly increasing in date.
C3_StrictlyIncreasing ==
  \A e \in Entries :
    LET rows == files[e[1]][e[2]].rows
    IN \A i \in 1 .. Len(rows) - 1 : rows[i].date < rows[i + 1].date

\* C4: an update_data call that is passed an identifier whose entry has a
\* column absent from the lookup fetches nothing and changes no entry.
C4_UnknownFieldChangesNothing ==
  [][(/\ last'.op = "update_data"
      /\ \E r \in Range(last'.args[1]) :
           Cached(last'.args[3], r) /\ Unknown(files[last'.args[3]][r]) # {})
       => files' = files /\ last'.fetched = {}]_vars

\* C5: after a call that opened a vendor session and returned, the session
\* is closed.
C5_SessionClosed ==
  (last.opened /\ last.outcome = "returned") => session = "closed"

\* C6: when init_data fetches, for an identifier without an entry, the
\* requested fields less some field X, the identifier gets no entry, X is
\* reported missing, and every other identifier of the call that has no entry
\* and whose fetch is complete gets its entry.
Complete(ric, fields, start, end) ==
  Cardinality(get_history(ric, fields, start, end).cols) >= Len(fields)

C6_FieldCompleteness ==
  [][last'.op = "init_data"
       => LET rics     == last'.args[1]
              fields   == last'.args[2]
              start    == last'.args[3]
              end      == last'.args[4]
              base_dir == last'.args[5]
          IN \A r \in Range(rics), X \in Range(fields) :
               (/\ ~Cached(base_dir, r)
                /\ get_history(r, fields, start, end).cols = Range(fields) \ {X})
                 => /\ r \notin DOMAIN files'[base_dir]
                    /\ <<"missing", r, X>> \in last'.reported
                    /\ \A q \in Range(rics) :
                         (~Cached(base_dir, q) /\ Complete(q, fields, start, end))
                           => /\ q \in DOMAIN files'[base_dir]
                              /\ files'[base_dir][q] =
                                   get_history(q, fields, start, end)]_vars

\* C7: an identifier passed to update_data whose entry's latest date is not
\* before new_end is not fetched, and its entry is the same after the call.
C7_UpdateNoOp ==
  [][last'.op = "update_data"
       => LET new_end  == last'.args[2]
              base_dir == last'.args[3]
          IN \A r \in Range(last'.args[1]) :
               (/\ Cached(base_dir, r)
                /\ files[base_dir][r].rows # <<>>
                /\ LastDate(files[base_dir][r]) >= new_end)
                 => /\ r \notin last'.fetched
                    /\ r \in DOMAIN files'[base_dir]
                    /\ files'[base_dir][r] = files[base_dir][r]]_vars

\* An update_data call that found one entry already current and brought
\* another up to date.
C7_Witness ==
  /\ last.op = "update_data"
  /\ \E r, q \in RICS :
       /\ r # q
       /\ <<r, "current">> \in last.done
       /\ <<q, "updated">> \in last.done
       /\ LastDate(files[last.args[3]][r]) > last.args[2]

\* C8: when init_data is given a store location that does not exist and the
\* fetch of some identifier is complete, the location exists after the call
\* and holds that identifier's entry.
C8_StoreDirCreated ==
  [][last'.op = "init_data"
       => LET rics     == last'.args[1]
              fields   == last'.args[2]
              start    == last'.args[3]
              end      == last'.args[4]
              base_dir == last'.args[5]
              complete == {r \in Range(rics) : Complete(r, fields, start, end)}
          IN (base_dir \notin dirs /\ complete # {})
               => /\ base_dir \in dirs'
                  /\ complete \subseteq DOMAIN files'[base_dir]]_vars

\* C9 (under SpecLoad): load_raw_data returns, without raising, exactly the
\* requested identifiers that have an entry, each with the content of its
\* entry, and leaves the directories and the files as they were.
C9_LoadRaw ==
  [][last'.op = "load_raw_data"
       => LET rics     == last'.args[1]
              base_dir == last'.args[2]
              cached   == {r \in Range(rics) : Cached(base_dir, r)}
          IN /\ last'.outcome = "returned"
             /\ DOMAIN last'.result = cached
             /\ \A r \in cached : last'.result[r] = files[base_dir][r]
             /\ files' = files /\ dirs' = dirs]_vars

\* A load_raw_data call of an identifier without an entry and then one with.
C9_Witness ==
  /\ last.op = "load_raw_data"
  /\ Len(last.args[1]) = 2
  /\ DOMAIN last.result = {last.args[1][2]}
  /\ last.args[1][1] # last.args[1][2]
  /\ last.result[last.args[1][2]].rows # <<>>

\* C10 (under SpecLoad): every table load_preprocessed_data returns has no
\* missing value; it is the stored table in which each missing cell takes the
\* value of the nearest row above it that has one in that column, less the
\* rows that have a cell with no such row above.
Source(df, i, c) == {j \in 1 .. i : df.rows[j].vals[c] # NA}

Max(S) == CHOOSE m \in S : \A x \in S : x <= m

Kept(df) == {i \in 1 .. Len(df.rows) : \A c \in df.cols : Source(df, i, c) # {}}

RECURSIVE Ascending(_)
Ascending(S) ==
  IF S = {} THEN <<>>
  ELSE LET m == Max(S) IN Append(Ascending(S \ {m}), m)

Filled(df) ==
  LET keep == Ascending(Kept(df))
  IN [cols |-> df.cols,
      rows |-> [k \in 1 .. Len(keep) |->
                  Row(df.rows[keep[k]].date,
                      [c \in df.cols |-> df.rows[Max(Source(df, keep[k], c))].vals[c]])]]

C10_LoadPreprocessed ==
  last.op = "load_preprocessed_data"
    => \A r \in DOMAIN last.result :
         /\ last.result[r] = Filled(files[last.args[2]][r])
         /\ \A i \in 1 .. Len(last.result[r].rows) :
              \A c \in last.result[r].cols : last.result[r].rows[i].vals[c] # NA

\* A load that dropped a leading row and filled a gap from the row above it.
C10_Witness ==
  /\ last.op = "load_preprocessed_data"
  /\ \E r \in DOMAIN last.result :
       LET df == files[last.args[2]][r]
       IN /\ Len(df.rows) = 3
          /\ Len(last.result[r].rows) = 2
          /\ \E c \in df.cols : df.rows[1].vals[c] = NA
          /\ \E c \in df.cols : df.rows[3].vals[c] = NA /\ df.rows[2].vals[c] # NA

====
